---- MODULE Spec2Model ----
(***************************************************************************)
(* Measurement Management API (src/main.py, src/schemas.py): the request   *)
(* handlers over the three collections project, building and element of a *)
(* document store.                                                         *)
(*                                                                         *)
(* Conventions.  A Python str that the code inspects character by          *)
(* character (an identifier) is a sequence of one-character strings; a str *)
(* the code only stores or compares (an enum value, a configuration) is a  *)
(* TLA+ string.  Optional[T] is a set: None is {}, a value v is {v}.  A    *)
(* JSON body is a record holding exactly the keys that were sent.  The     *)
(* float fields *_mm are modelled by integers.  An ObjectId is the         *)
(* sequence of its 24 hexadecimal digit values.                            *)
(***************************************************************************)
EXTENDS Integers, Sequences, FiniteSets, TLC

\* ------------------------------------------------------------- bounds
MaxProjects == 2
MaxBuildings == 1
\* elements stored while the create endpoints are checked
MaxElements == 1
\* elements stored for the read endpoints, and for the concurrent requests
MaxPopulation == 2
\* the requests that may be in flight at once under SpecConc
NSlots == 2

\* ------------------------------------------------------ Optional[T]
None == {}
Some(v) == {v}
Get(o) == CHOOSE v \in o : TRUE

\* ------------------------------------------------------- identifiers
\* an ObjectId is 12 bytes, written as 24 hexadecimal characters
OidLen == 24
LowerDigits == <<"0","1","2","3","4","5","6","7","8","9","a","b","c","d","e","f">>
UpperDigits == <<"0","1","2","3","4","5","6","7","8","9","A","B","C","D","E","F">>
HexChars == {LowerDigits[n] : n \in 1..16} \cup {UpperDigits[n] : n \in 1..16}
IsHexChar(c) == c \in HexChars
\* the value of a hexadecimal digit, either case
HexValue == [c \in HexChars |-> (CHOOSE n \in 1..16 : LowerDigits[n] = c \/ UpperDigits[n] = c) - 1]
HexVal(c) == HexValue[c]

\* ObjectId.is_valid(v) for a str v
IsValid(v) == Len(v) = OidLen /\ \A i \in 1..Len(v) : IsHexChar(v[i])
\* ObjectId(v) for a valid str v: the digits' values
ObjectId(v) == [i \in 1..OidLen |-> HexVal(v[i])]
\* str(oid): lower-case hexadecimal
Str(oid) == [i \in 1..OidLen |-> LowerDigits[oid[i] + 1]]
\* the identifier the store assigns to the n-th insert into a collection: unique
\* across the collections (the first digit tells them apart)
CollectionTag(c) == CASE c = "project" -> 1 [] c = "building" -> 2 [] c = "element" -> 3
NewOid(c, n) == [i \in 1..OidLen |-> IF i = 1 THEN CollectionTag(c)
                                      ELSE IF i = OidLen THEN n % 16
                                      ELSE IF i = OidLen - 1 THEN (n \div 16) % 16
                                      ELSE 0]
\* the store's counters begin here (so that an identifier's text holds a letter)
FirstId == 10

\* an identifier as a client may also write it: upper-case hexadecimal
Upper(s) == [i \in 1..Len(s) |-> IF IsHexChar(s[i]) THEN UpperDigits[HexVal(s[i]) + 1] ELSE s[i]]

\* ----------------------------------------------------------- schemas
ProjectTypes == {"Immeuble", "Résidence", "Villa", "École", "Hôtel", "Autre"}
ElementTypes == {"porte", "placard", "dressing"}
Openings == {"poussant", "tirant"}
MmFields == {"height_mm", "width_mm", "depth_mm", "thickness_mm"}
\* (a variant: depth_mm declared without ge=0)
MmFieldsNoDepth == {"height_mm", "width_mm", "thickness_mm"}

\* a key of a JSON body: sent with a value, sent as null, or not sent
Sent(raw, k) == k \in DOMAIN raw
Present(raw, k) == k \in DOMAIN raw /\ raw[k] # None
\* the field as the schema reads it: the default stands in for a key not sent
FieldOf(raw, k, default) == IF k \in DOMAIN raw THEN raw[k] ELSE default

\* pydantic's check of a body against Project
ProjectValid(raw) ==
    /\ Present(raw, "name")
    /\ Sent(raw, "project_type") => Present(raw, "project_type") /\ Get(raw["project_type"]) \in ProjectTypes
ParseProject(raw) ==
    [ name |-> Get(raw["name"]),
      project_type |-> IF Sent(raw, "project_type") THEN Get(raw["project_type"]) ELSE "Autre",
      location |-> FieldOf(raw, "location", None),
      contact_name |-> FieldOf(raw, "contact_name", None),
      contact_phone |-> FieldOf(raw, "contact_phone", None),
      photo_url |-> FieldOf(raw, "photo_url", None) ]

\* pydantic's check of a body against Building
BuildingValid(raw) == Present(raw, "project_id") /\ Present(raw, "name")
ParseBuilding(raw) ==
    [ project_id |-> Get(raw["project_id"]),
      name |-> Get(raw["name"]),
      description |-> FieldOf(raw, "description", None) ]

\* pydantic's check of a body against Element
\* (a variant: depth_mm declared without ge=0)
MmValidNoDepth(raw) == \A k \in MmFieldsNoDepth : Present(raw, k) => Get(raw[k]) >= 0
MmValid(raw) == \A k \in MmFields : Present(raw, k) => Get(raw[k]) >= 0
QuantityValid(raw) == Sent(raw, "quantity") => Present(raw, "quantity") /\ Get(raw["quantity"]) >= 1
ElementValid(raw) ==
    /\ Present(raw, "project_id")
    /\ Present(raw, "element_type") /\ Get(raw["element_type"]) \in ElementTypes
    /\ Present(raw, "opening") => Get(raw["opening"]) \in Openings
    /\ MmValid(raw)
    /\ QuantityValid(raw)
QuantityOf(raw) == IF Sent(raw, "quantity") THEN Get(raw["quantity"]) ELSE 1
ParseElement(raw) ==
    [ project_id |-> Get(raw["project_id"]),
      building_id |-> FieldOf(raw, "building_id", None),
      element_type |-> Get(raw["element_type"]),
      configuration |-> FieldOf(raw, "configuration", None),
      opening |-> FieldOf(raw, "opening", None),
      height_mm |-> FieldOf(raw, "height_mm", None),
      width_mm |-> FieldOf(raw, "width_mm", None),
      depth_mm |-> FieldOf(raw, "depth_mm", None),
      thickness_mm |-> FieldOf(raw, "thickness_mm", None),
      quantity |-> QuantityOf(raw),
      notes_text |-> FieldOf(raw, "notes_text", None),
      notes_audio_url |-> FieldOf(raw, "notes_audio_url", None),
      photo_url |-> FieldOf(raw, "photo_url", None) ]

\* ------------------------------------------------------------- state
VARIABLES
    db,      \* the store: collection name -> its documents, in insertion order
    nextId,  \* the store's identifier generator: collection -> next counter value
    req      \* slot -> the request being handled there (or idle)
vars == <<db, nextId, req>>

Slots == 1..NSlots
Collections == {"project", "building", "element"}
CreateKinds == {"create_project", "create_building", "create_element"}
CollectionOf(kind) == CASE kind = "create_project" -> "project"
                        [] kind = "create_building" -> "building"
                        [] kind = "create_element" -> "element"

\* ------------------------------------------------------------- store
Range(seq) == {seq[i] : i \in 1..Len(seq)}
\* collection.find_one({"_id": oid}): Optional[document]
FindOne(c, oid) == {d \in Range(db[c]) : d["_id"] = oid}
\* a query document is an equality on each of its keys
Matches(d, query) == \A k \in DOMAIN query : d[k] = query[k]
\* get_documents(c, query): the matching documents in the store's order
GetDocuments(c, query) == SelectSeq(db[c], LAMBDA d : Matches(d, query))
\* create_document(c, payload): insert payload.model_dump() under a fresh _id
InsertedDoc(c, payload) == [_id |-> NewOid(c, nextId[c])] @@ payload
CreateDocument(c, payload) == [db EXCEPT ![c] = Append(@, InsertedDoc(c, payload))]

RECURSIVE SumQuantity(_)
SumQuantity(docs) == IF docs = <<>> THEN 0
                     ELSE Head(docs)["quantity"] + SumQuantity(Tail(docs))
\* the pipeline [$match {project_id}, $group {_id: {type, config}, count: $sum quantity}]
GroupKey(d) == [type |-> d["element_type"], config |-> d["configuration"]]
\* (a variant: the pipeline without its $match stage)
AggregateNoMatch(pid) ==
    LET matched == db["element"]
    IN { [_id |-> g, count |-> SumQuantity(SelectSeq(matched, LAMBDA d : GroupKey(d) = g))]
         : g \in {GroupKey(d) : d \in Range(matched)} }
Aggregate(pid) ==
    LET matched == GetDocuments("element", [project_id |-> pid])
    IN { [_id |-> g, count |-> SumQuantity(SelectSeq(matched, LAMBDA d : GroupKey(d) = g))]
         : g \in {GroupKey(d) : d \in Range(matched)} }

\* ---------------------------------------------------------- helpers
\* serialize_doc: every ObjectId value (the _id) becomes its str
SerializeDoc(doc) == [k \in DOMAIN doc |-> IF k = "_id" THEN Str(doc[k]) ELSE doc[k]]
SerializeAll(docs) == [n \in 1..Len(docs) |-> SerializeDoc(docs[n])]
\* PyObjectId.validate(v) for a str v: the ObjectId, or None for the ValueError raised
PyObjectIdValidate(v) == IF IsValid(v) THEN Some(ObjectId(v)) ELSE None
\* Python's truth value of an Optional[str]: None and "" are false
Truthy(o) == o # None /\ Get(o) # <<>>

\* ---------------------------------------------------------- requests
Idle == [kind |-> "idle", pc |-> "idle"]
\* a request as it arrives: nothing checked, nothing asked of the store yet.
\* log lists the identifier checks made and the store calls issued, in order;
\* fault tells that a store call of this request raised; before is the store
\* as the request found it.
NewReq(kind, input) ==
    [ kind |-> kind, pc |-> "start", input |-> input, payload |-> <<>>,
      log |-> <<>>, inserted_id |-> None, fault |-> FALSE, before |-> db,
      status |-> 0, detail |-> "", body |-> <<>> ]
Respond(r, status, detail, body) ==
    [r EXCEPT !.pc = "done", !.status = status, !.detail = detail, !.body = body]
Logged(r, entries) == [r EXCEPT !.log = @ \o entries]
\* a store call that raised: HTTPException(500), from the handler's except
\* clause, or from the framework when the call stands outside every try
StoreError(r) == Respond([r EXCEPT !.fault = TRUE], 500, "store error", <<>>)
\* the body is refused by the schema before the handler is entered
Unprocessable(r) == Respond(r, 422, "validation error", <<>>)

StoreCalls == { "find_one(project)", "find_one(building)", "find_one(element)",
                "insert(project)", "insert(building)", "insert(element)",
                "find(building)", "find(element)", "aggregate(element)" }

\* ---- POST /projects
CreateProjectBegin(r) ==
    IF ~ProjectValid(r.input) THEN Unprocessable(r)
    ELSE [r EXCEPT !.payload = ParseProject(r.input), !.pc = "insert"]

\* ---- POST /buildings
CreateBuildingBegin(r) ==
    IF ~BuildingValid(r.input) THEN Unprocessable(r)
    ELSE LET q == Logged([r EXCEPT !.payload = ParseBuilding(r.input)], <<"is_valid(project_id)">>)
         IN IF ~IsValid(q.payload.project_id) THEN Respond(q, 400, "Invalid project_id", <<>>)
            ELSE [q EXCEPT !.pc = "find_project"]
\* line 139, with the answer of find_one
\* (a variant: the answer of find_one is not looked at)
CreateBuildingProjectFoundNoCheck(r, found) == [r EXCEPT !.pc = "insert"]
CreateBuildingProjectFound(r, found) ==
    IF found = None THEN Respond(r, 404, "Parent project not found", <<>>)
    ELSE [r EXCEPT !.pc = "insert"]

\* ---- POST /elements
\* (a variant: a malformed project_id answered as a missing parent)
CreateElementBeginNotFound(r) ==
    IF ~ElementValid(r.input) THEN Unprocessable(r)
    ELSE LET q == Logged([r EXCEPT !.payload = ParseElement(r.input)], <<"is_valid(project_id)">>)
         IN IF ~IsValid(q.payload.project_id) THEN Respond(q, 404, "Parent project not found", <<>>)
            ELSE [q EXCEPT !.pc = "find_project"]
CreateElementBegin(r) ==
    IF ~ElementValid(r.input) THEN Unprocessable(r)
    ELSE LET q == Logged([r EXCEPT !.payload = ParseElement(r.input)], <<"is_valid(project_id)">>)
         IN IF ~IsValid(q.payload.project_id) THEN Respond(q, 400, "Invalid project_id", <<>>)
            ELSE [q EXCEPT !.pc = "find_project"]
\* lines 167-172, with the answer of find_one
\* (a variant: the answer of find_one is not looked at)
CreateElementProjectFoundNoCheck(r, found) ==
    IF Truthy(r.payload.building_id)
    THEN LET q == Logged(r, <<"is_valid(building_id)">>)
         IN IF ~IsValid(Get(r.payload.building_id))
            THEN Respond(q, 400, "Invalid building_id", <<>>)
            ELSE [q EXCEPT !.pc = "find_building"]
    ELSE [r EXCEPT !.pc = "insert"]
CreateElementProjectFound(r, found) ==
    IF found = None THEN Respond(r, 404, "Parent project not found", <<>>)
    ELSE IF Truthy(r.payload.building_id)
    THEN LET q == Logged(r, <<"is_valid(building_id)">>)
         IN IF ~IsValid(Get(r.payload.building_id))
            THEN Respond(q, 400, "Invalid building_id", <<>>)
            ELSE [q EXCEPT !.pc = "find_building"]
    ELSE [r EXCEPT !.pc = "insert"]
\* line 173, with the answer of find_one
CreateElementBuildingFound(r, found) ==
    IF found = None THEN Respond(r, 404, "Parent building not found", <<>>)
    ELSE [r EXCEPT !.pc = "insert"]

\* ---- the tail every create handler shares: insert, re-read, serialize
Inserted(r, c) == [r EXCEPT !.inserted_id = Some(Str(NewOid(c, nextId[c]))), !.pc = "reread"]
\* serialize_doc(None) is None, which the response model (dict) refuses
RereadDone(r, doc) == IF doc = None THEN Respond(r, 500, "Internal Server Error", <<>>)
                      ELSE Respond(r, 200, "", SerializeDoc(Get(doc)))

\* ---- GET /projects/{project_id}
GetProjectResponse(r, ok) ==
    LET q == Logged(r, <<"is_valid(project_id)">>)
        oid == PyObjectIdValidate(r.input.project_id)
    IN IF oid = None THEN Respond(q, 500, "Invalid ObjectId", <<>>)
       ELSE LET q2 == Logged(q, <<"find_one(project)">>)
                doc == FindOne("project", Get(oid))
            IN IF ~ok THEN StoreError(q2)
               ELSE IF doc = None THEN Respond(q2, 404, "Project not found", <<>>)
               ELSE Respond(q2, 200, "", SerializeDoc(Get(doc)))

\* ---- GET /projects/{project_id}/buildings
ListBuildingsResponse(r, ok) ==
    LET q == Logged(r, <<"is_valid(project_id)">>)
    IN IF ~IsValid(r.input.project_id) THEN Respond(q, 400, "Invalid project_id", <<>>)
       ELSE LET q2 == Logged(q, <<"find(building)">>)
            IN IF ~ok THEN StoreError(q2)
               ELSE Respond(q2, 200, "",
                        SerializeAll(GetDocuments("building", [project_id |-> r.input.project_id])))

\* ---- GET /projects/{project_id}/elements?building_id=
ListElementsQuery(input) ==
    IF Truthy(input.building_id)
    THEN [project_id |-> input.project_id, building_id |-> input.building_id]
    ELSE [project_id |-> input.project_id]
ListElementsResponse(r, ok) ==
    LET q == Logged(r, <<"is_valid(project_id)">>)
    IN IF ~IsValid(r.input.project_id) THEN Respond(q, 400, "Invalid project_id", <<>>)
       ELSE LET q2 == IF Truthy(r.input.building_id) THEN Logged(q, <<"is_valid(building_id)">>) ELSE q
            IN IF Truthy(r.input.building_id) /\ ~IsValid(Get(r.input.building_id))
               THEN Respond(q2, 400, "Invalid building_id", <<>>)
               ELSE LET q3 == Logged(q2, <<"find(element)">>)
                    IN IF ~ok THEN StoreError(q3)
                       ELSE Respond(q3, 200, "",
                                SerializeAll(GetDocuments("element", ListElementsQuery(r.input))))

\* ---- GET /projects/{project_id}/summary
RECURSIVE SumCount(_)
SumCount(items) == IF items = {} THEN 0
                   ELSE LET it == CHOOSE x \in items : TRUE
                        IN it.count + SumCount(items \ {it})
SummaryItems(agg) ==
    { [element_type |-> a["_id"].type, configuration |-> a["_id"].config, count |-> a.count]
      : a \in agg }
ProjectSummaryResponse(r, ok) ==
    LET q == Logged(r, <<"is_valid(project_id)">>)
    IN IF ~IsValid(r.input.project_id) THEN Respond(q, 400, "Invalid project_id", <<>>)
       ELSE LET q2 == Logged(q, <<"aggregate(element)">>)
                items == SummaryItems(Aggregate(r.input.project_id))
            IN IF ~ok THEN StoreError(q2)
               ELSE Respond(q2, 200, "", [total |-> SumCount(items), items |-> items])

\* ---- GET /projects/{project_id}/export/csv
CsvHeader == << "ID", "Type", "Configuration", "Ouverture", "Hauteur(mm)", "Largeur(mm)",
                "Profondeur(mm)", "Épaisseur(mm)", "Quantité", "Notes" >>
\* (notes_text or "").replace("\n", " ")
NotesCell(notes) ==
    LET text == IF Truthy(notes) THEN Get(notes) ELSE <<>>
    IN [n \in 1..Len(text) |-> IF text[n] = "\n" THEN " " ELSE text[n]]
\* one row, a cell per header column; a None cell is written empty
CsvRow(e) ==
    [ id |-> Str(e["_id"]), type |-> e["element_type"], configuration |-> e["configuration"],
      opening |-> e["opening"], height |-> e["height_mm"], width |-> e["width_mm"],
      depth |-> e["depth_mm"], thickness |-> e["thickness_mm"], quantity |-> e["quantity"],
      notes |-> NotesCell(e["notes_text"]) ]
ExportCsvResponse(r, ok) ==
    LET q == Logged(r, <<"is_valid(project_id)">>)
    IN IF ~IsValid(r.input.project_id) THEN Respond(q, 400, "Invalid project_id", <<>>)
       ELSE LET q2 == Logged(q, <<"find(element)">>)
                elems == GetDocuments("element", [project_id |-> r.input.project_id])
            IN IF ~ok THEN StoreError(q2)
               ELSE Respond(q2, 200, "text/csv",
                        [ header |-> CsvHeader,
                          rows |-> [n \in 1..Len(elems) |-> CsvRow(elems[n])],
                          filename |-> <<"project_", r.input.project_id, "_elements.csv">> ])

\* ----------------------------------------------------- request inputs
\* identifiers a client may send: those of stored projects (buildings), the
\* first project's in upper case, a well-formed one the store never assigns,
\* and malformed ones (too short, not hexadecimal, empty)
AbsentId == [n \in 1..OidLen |-> "0"]
UpperFirstId == Upper(Str(NewOid("project", FirstId)))
ShortId == <<"0", "a">>
NonHexId == [n \in 1..OidLen |-> "z"]
EmptyId == <<>>
StoredIds(c) == {Str(d["_id"]) : d \in Range(db[c])}
PidInputs == StoredIds("project") \cup {UpperFirstId, AbsentId, ShortId, NonHexId, EmptyId}
BidInputs == StoredIds("building") \cup {AbsentId, NonHexId, EmptyId}
OptBidInputs == {None} \cup {Some(b) : b \in BidInputs}

ProjectRaws ==
    { [name |-> Some("Chantier")],
      [name |-> Some("Chantier"), project_type |-> Some("Usine")],
      [project_type |-> Some("Villa")] }
BuildingRaws ==
    { [project_id |-> Some(p), name |-> Some("Bloc A")] : p \in PidInputs }
    \cup { [project_id |-> Some(p)] : p \in {AbsentId, ShortId} }
    \cup { [name |-> Some("Bloc A")] }

ElementBase(p) == [project_id |-> Some(p), element_type |-> Some("porte"),
                   configuration |-> Some("simple")]
ValidVariants ==
    { [element_type |-> Some("porte"), configuration |-> Some("simple"), quantity |-> Some(2)],
      [element_type |-> Some("placard"), configuration |-> None, height_mm |-> Some(0)] }
InvalidVariants ==
    { [element_type |-> Some("porte"), height_mm |-> Some(-1)],
      [element_type |-> Some("porte"), width_mm |-> Some(-1)],
      [element_type |-> Some("placard"), depth_mm |-> Some(-1)],
      [element_type |-> Some("porte"), thickness_mm |-> Some(-1)],
      [element_type |-> Some("porte"), quantity |-> Some(0)],
      [element_type |-> Some("porte"), quantity |-> None],
      [element_type |-> Some("fenêtre")],
      [element_type |-> Some("porte"), opening |-> Some("coulissant")],
      [configuration |-> Some("simple")] }
\* every combination of identifiers under one body, and every variant of the
\* other fields under an existing, an unknown and a malformed project_id
ElementRaws ==
    { ElementBase(p) : p \in PidInputs }
    \cup { ElementBase(p) @@ [building_id |-> b] : p \in PidInputs, b \in OptBidInputs }
    \cup { [project_id |-> Some(p)] @@ v : p \in {UpperFirstId, ShortId},
                                          v \in ValidVariants \cup InvalidVariants }
    \cup { [element_type |-> Some("porte")] }

\* the bodies that populate the store for the read endpoints
PopulateBuildingRaws == { [project_id |-> Some(p), name |-> Some("Bloc A")] : p \in StoredIds("project") }
PopulateElementRaws ==
    { ElementBase(p) : p \in StoredIds("project") \cup {UpperFirstId} }
    \cup { ElementBase(p) @@ [building_id |-> Some(b)] : p \in StoredIds("project"),
                                                        b \in StoredIds("building") \cup {EmptyId} }
    \cup { [project_id |-> Some(p)] @@ v : p \in StoredIds("project"), v \in ValidVariants }
ListInputs == { [project_id |-> p, building_id |-> b] : p \in PidInputs, b \in OptBidInputs }
PathInputs == { [project_id |-> p] : p \in PidInputs }

\* the bodies of the concurrent specification: well-formed, over the
\* identifiers that decide the existence checks
ConcBuildingRaws == { [project_id |-> Some(p), name |-> Some("Bloc A")] : p \in StoredIds("project") \cup {UpperFirstId, AbsentId} }
ConcElementRaws ==
    { ElementBase(p) : p \in StoredIds("project") \cup {AbsentId} }
    \cup { ElementBase(p) @@ [building_id |-> Some(b)] : p \in StoredIds("project"), b \in StoredIds("building") \cup {AbsentId} }

\* ------------------------------------------------------------ actions
\* documents of collection c that requests in flight may still insert; a
\* create request is taken up while its collection has room under the bound
Pending(c) == Cardinality({ j \in Slots : req[j].kind \in CreateKinds /\ req[j].pc # "done"
                                          /\ CollectionOf(req[j].kind) = c })
Room(c, cap) == Len(db[c]) + Pending(c) < cap
Set(i, r) == req' = [req EXCEPT ![i] = r]

StartCreateProject(i, raw) ==
    /\ req[i] = Idle
    /\ Set(i, CreateProjectBegin(NewReq("create_project", raw)))
    /\ UNCHANGED <<db, nextId>>
StartCreateBuilding(i, raw) ==
    /\ req[i] = Idle
    /\ Set(i, CreateBuildingBegin(NewReq("create_building", raw)))
    /\ UNCHANGED <<db, nextId>>
StartCreateElement(i, raw) ==
    /\ req[i] = Idle
    /\ Set(i, CreateElementBegin(NewReq("create_element", raw)))
    /\ UNCHANGED <<db, nextId>>

\* line 139: db["project"].find_one, outside the handler's try
CreateBuildingFindProject(i) ==
    /\ req[i].kind = "create_building" /\ req[i].pc = "find_project"
    /\ \E ok \in BOOLEAN :
         LET q == Logged(req[i], <<"find_one(project)">>)
         IN Set(i, IF ok THEN CreateBuildingProjectFound(q, FindOne("project", ObjectId(q.payload.project_id)))
                   ELSE StoreError(q))
    /\ UNCHANGED <<db, nextId>>
\* line 167
CreateElementFindProject(i) ==
    /\ req[i].kind = "create_element" /\ req[i].pc = "find_project"
    /\ \E ok \in BOOLEAN :
         LET q == Logged(req[i], <<"find_one(project)">>)
         IN Set(i, IF ok THEN CreateElementProjectFound(q, FindOne("project", ObjectId(q.payload.project_id)))
                   ELSE StoreError(q))
    /\ UNCHANGED <<db, nextId>>
\* line 173
CreateElementFindBuilding(i) ==
    /\ req[i].kind = "create_element" /\ req[i].pc = "find_building"
    /\ \E ok \in BOOLEAN :
         LET q == Logged(req[i], <<"find_one(building)">>)
         IN Set(i, IF ok THEN CreateElementBuildingFound(q, FindOne("building", ObjectId(Get(q.payload.building_id))))
                   ELSE StoreError(q))
    /\ UNCHANGED <<db, nextId>>

\* (a variant: the exception reaches the handler after the document was written)
InsertStepWriteThenRaise(i, kind, c, entry) ==
    /\ req[i].kind = kind /\ req[i].pc = "insert"
    /\ \E ok \in BOOLEAN :
         LET q == Logged(req[i], <<entry>>)
         IN /\ db' = CreateDocument(c, q.payload)
            /\ nextId' = [nextId EXCEPT ![c] = @ + 1]
            /\ Set(i, IF ok THEN Inserted(q, c) ELSE StoreError(q))
\* create_document(c, payload) inside the try: the insert, or the 500
InsertStep(i, kind, c, entry) ==
    /\ req[i].kind = kind /\ req[i].pc = "insert"
    /\ \E ok \in BOOLEAN :
         LET q == Logged(req[i], <<entry>>)
         IN IF ok THEN /\ db' = CreateDocument(c, q.payload)
                       /\ nextId' = [nextId EXCEPT ![c] = @ + 1]
                       /\ Set(i, Inserted(q, c))
            ELSE /\ Set(i, StoreError(q))
                 /\ UNCHANGED <<db, nextId>>
\* db[c].find_one({"_id": ObjectId(inserted_id)}) and serialize_doc, or the 500
RereadStep(i, kind, c) ==
    /\ req[i].kind = kind /\ req[i].pc = "reread"
    /\ \E ok \in BOOLEAN :
         LET q == Logged(req[i], <<"find_one(" \o c \o ")">>)
         IN Set(i, IF ok THEN RereadDone(q, FindOne(c, ObjectId(Get(q.inserted_id))))
                   ELSE StoreError(q))
    /\ UNCHANGED <<db, nextId>>
CreateProjectInsert(i) == InsertStep(i, "create_project", "project", "insert(project)")
CreateProjectReread(i) == RereadStep(i, "create_project", "project")
CreateBuildingInsert(i) == InsertStep(i, "create_building", "building", "insert(building)")
CreateBuildingReread(i) == RereadStep(i, "create_building", "building")
CreateElementInsert(i) == InsertStep(i, "create_element", "element", "insert(element)")
CreateElementReread(i) == RereadStep(i, "create_element", "element")

\* the read handlers issue one store call each
Read(i, r) ==
    /\ req[i] = Idle
    /\ Set(i, r)
    /\ UNCHANGED <<db, nextId>>
GetProject(i, input) == \E ok \in BOOLEAN : Read(i, GetProjectResponse(NewReq("get_project", input), ok))
ListBuildings(i, input) == \E ok \in BOOLEAN : Read(i, ListBuildingsResponse(NewReq("list_buildings", input), ok))
ListElements(i, input) == \E ok \in BOOLEAN : Read(i, ListElementsResponse(NewReq("list_elements", input), ok))
ProjectSummary(i, input) == \E ok \in BOOLEAN : Read(i, ProjectSummaryResponse(NewReq("project_summary", input), ok))
ExportCsv(i, input) == \E ok \in BOOLEAN : Read(i, ExportCsvResponse(NewReq("export_csv", input), ok))

\* the response leaves; the slot takes the next request
Reply(i) ==
    /\ req[i].pc = "done"
    /\ Set(i, Idle)
    /\ UNCHANGED <<db, nextId>>

Init ==
    /\ db = [c \in Collections |-> <<>>]
    /\ nextId = [c \in Collections |-> FirstId]
    /\ req = [i \in Slots |-> Idle]

CreateSteps(i) ==
    \/ CreateProjectInsert(i)
    \/ CreateProjectReread(i)
    \/ CreateBuildingFindProject(i)
    \/ CreateBuildingInsert(i)
    \/ CreateBuildingReread(i)
    \/ CreateElementFindProject(i)
    \/ CreateElementFindBuilding(i)
    \/ CreateElementInsert(i)
    \/ CreateElementReread(i)
    \/ Reply(i)

\* one request at a time: the create endpoints under every kind of body
Next ==
    \/ Room("project", MaxProjects) /\ \E raw \in ProjectRaws : StartCreateProject(1, raw)
    \/ Room("building", MaxBuildings) /\ \E raw \in BuildingRaws : StartCreateBuilding(1, raw)
    \/ Room("element", MaxElements) /\ \E raw \in ElementRaws : StartCreateElement(1, raw)
    \/ CreateSteps(1)
Spec == Init /\ [][Next]_vars

\* one request at a time: the read endpoints over every store the create
\* endpoints build
NextRead ==
    \/ Room("project", MaxProjects) /\ StartCreateProject(1, [name |-> Some("Chantier")])
    \/ Room("building", MaxBuildings) /\ \E raw \in PopulateBuildingRaws : StartCreateBuilding(1, raw)
    \/ Room("element", MaxPopulation) /\ \E raw \in PopulateElementRaws : StartCreateElement(1, raw)
    \/ CreateSteps(1)
    \/ \E input \in PathInputs : GetProject(1, input)
    \/ \E input \in PathInputs : ListBuildings(1, input)
    \/ \E input \in ListInputs : ListElements(1, input)
    \/ \E input \in PathInputs : ProjectSummary(1, input)
    \/ \E input \in PathInputs : ExportCsv(1, input)
SpecRead == Init /\ [][NextRead]_vars

\* create requests handled concurrently, interleaved at their store calls
NextConc ==
    \E i \in Slots :
        \/ Room("project", MaxProjects) /\ StartCreateProject(i, [name |-> Some("Chantier")])
        \/ Room("building", MaxBuildings) /\ \E raw \in ConcBuildingRaws : StartCreateBuilding(i, raw)
        \/ Room("element", MaxPopulation) /\ \E raw \in ConcElementRaws : StartCreateElement(i, raw)
        \/ CreateSteps(i)
SpecConc == Init /\ [][NextConc]_vars

\* ============================================================== claims
Finished(i, kind) == req[i].kind = kind /\ req[i].pc = "done"
\* the identifier text s names a document of collection c
Identifies(s, c) == IsValid(s) /\ \E d \in Range(db[c]) : d["_id"] = ObjectId(s)
NoStoreCall(log) == \A n \in 1..Len(log) : log[n] \notin StoreCalls
RECURSIVE QuantityOver(_)
QuantityOver(docs) == IF docs = {} THEN 0
                      ELSE LET d == CHOOSE x \in docs : TRUE
                           IN d["quantity"] + QuantityOver(docs \ {d})

\* C1: a create_building whose body the schema accepts and whose project_id is
\* well-formed but names no stored Project leaves every collection as it found
\* it and, the lookup having answered, responds 404 ParentNotFound.
C1_BuildingParentNotFound ==
    \A i \in Slots :
        ( /\ Finished(i, "create_building")
          /\ BuildingValid(req[i].input)
          /\ IsValid(Get(req[i].input["project_id"]))
          /\ ~Identifies(Get(req[i].input["project_id"]), "project") )
        => /\ db = req[i].before
           /\ ~req[i].fault => req[i].status = 404 /\ req[i].detail = "Parent project not found"
C1_Witness ==
    \E i \in Slots :
        /\ Finished(i, "create_building")
        /\ BuildingValid(req[i].input)
        /\ IsValid(Get(req[i].input["project_id"]))
        /\ ~Identifies(Get(req[i].input["project_id"]), "project")
        /\ req[i].status = 404
        /\ db["project"] # <<>>

\* C2: a create_element whose body the schema accepts and whose project_id is
\* malformed responds 400 InvalidIdentifier, having issued no store call
\* (no lookup, no insert), whatever building_id and the other fields are.
C2_MalformedProjectId ==
    \A i \in Slots :
        ( /\ Finished(i, "create_element")
          /\ ElementValid(req[i].input)
          /\ ~IsValid(Get(req[i].input["project_id"])) )
        => /\ req[i].status = 400 /\ req[i].detail = "Invalid project_id"
           /\ NoStoreCall(req[i].log)
           /\ db = req[i].before
C2_Witness ==
    \E i \in Slots :
        /\ Finished(i, "create_element")
        /\ ElementValid(req[i].input)
        /\ ~IsValid(Get(req[i].input["project_id"]))
        /\ Present(req[i].input, "building_id")
        /\ Identifies(Get(req[i].input["building_id"]), "building")
        /\ req[i].status = 400

\* C3: on every endpoint that takes an identifier, a malformed identifier (the
\* project identifier, or a non-empty building_id) is answered by a client
\* error other than 404, never by a 5xx.
IdKinds == { "get_project", "list_buildings", "list_elements", "project_summary",
             "export_csv", "create_building", "create_element" }
ProjectIdOf(r) == IF r.kind \in CreateKinds THEN Get(r.input["project_id"]) ELSE r.input["project_id"]
BuildingIdOf(r) == IF r.kind \in {"create_element", "list_elements"}
                   THEN FieldOf(r.input, "building_id", None) ELSE None
C3_MalformedIdIsClientError ==
    \A i \in Slots :
        ( /\ req[i].kind \in IdKinds /\ req[i].pc = "done" /\ req[i].status # 422
          /\ \/ ~IsValid(ProjectIdOf(req[i]))
             \/ Truthy(BuildingIdOf(req[i])) /\ ~IsValid(Get(BuildingIdOf(req[i]))) )
        => req[i].status \in 400..499 /\ req[i].status # 404

\* C4: every stored Building and every stored Element carries a project_id that
\* names a stored Project, also when create requests interleave between their
\* existence check and their insert.
C4_ProjectReferencesResolve ==
    /\ \A b \in Range(db["building"]) : Identifies(b["project_id"], "project")
    /\ \A e \in Range(db["element"]) : Identifies(e["project_id"], "project")
C4_Witness ==
    /\ \E e \in Range(db["element"]) : e["project_id"] \in StoredIds("project")
    /\ \E b \in Range(db["building"]) : b["project_id"] \notin StoredIds("project")
    /\ \E i, j \in Slots :
          /\ i # j
          /\ req[i].kind = "create_element" /\ req[i].pc = "insert"
          /\ req[j].kind = "create_project" /\ req[j].pc = "insert"

\* C5: every stored Element whose building_id is not null (the empty string
\* included) carries a building_id that names a stored Building.
C5_BuildingReferencesResolve ==
    \A e \in Range(db["element"]) :
        e["building_id"] # None => Identifies(Get(e["building_id"]), "building")

\* the first place of log holding an entry of the set, 0 when none does
FirstOf(log, entries) ==
    IF \E n \in 1..Len(log) : log[n] \in entries
    THEN CHOOSE n \in 1..Len(log) : log[n] \in entries /\ \A m \in 1..(n - 1) : log[m] \notin entries
    ELSE 0
IsPrefix(a, b) == Len(a) <= Len(b) /\ \A n \in 1..Len(a) : a[n] = b[n]
WithBuildingOrder == << "is_valid(project_id)", "find_one(project)", "is_valid(building_id)",
                        "find_one(building)", "insert(element)", "find_one(element)" >>
WithoutBuildingOrder == << "is_valid(project_id)", "find_one(project)",
                           "insert(element)", "find_one(element)" >>

ElementsOf(store, p) == {e \in Range(store["element"]) : e["project_id"] = p}
C7_SummaryGroups ==
    \A i \in Slots :
        Finished(i, "project_summary") =>
            LET r == req[i]
                p == r.input["project_id"]
                mine == ElementsOf(db, p)
                pairs == {<<e["element_type"], e["configuration"]>> : e \in mine}
            IN /\ (IsValid(p) /\ ~r.fault) => r.status = 200
               /\ r.status = 200 =>
                    /\ {<<it.element_type, it.configuration>> : it \in r.body.items} = pairs
                    /\ Cardinality(r.body.items) = Cardinality(pairs)
                    /\ \A it \in r.body.items :
                          it.count = QuantityOver({e \in mine : /\ e["element_type"] = it.element_type
                                                                /\ e["configuration"] = it.configuration})
                    /\ r.body.total = QuantityOver(mine)
C7_Witness ==
    \E i \in Slots :
        /\ Finished(i, "project_summary") /\ req[i].status = 200
        /\ Cardinality(ElementsOf(db, req[i].input["project_id"])) = 2
        /\ \E it \in req[i].body.items : it.count = 3 /\ it.configuration = Some("simple")
        /\ req[i].body.total = 3

\* C8: list_elements(p, b) answers exactly the Elements whose project_id equals
\* p and, when a building_id filter is supplied (b is not null), whose
\* building_id equals b.
C8_ListElementsExact ==
    \A i \in Slots :
        (Finished(i, "list_elements") /\ req[i].status = 200) =>
            LET p == req[i].input["project_id"]
                b == req[i].input["building_id"]
            IN Range(req[i].body) =
                   { SerializeDoc(e) : e \in { x \in ElementsOf(db, p) :
                                                  b # None => x["building_id"] = b } }

\* C9: an Element body that breaks a field constraint (a negative *_mm, a
\* quantity below 1, an element_type or opening outside its enum, a required
\* field missing) is refused with 422 before any identifier check or store
\* call, the store unchanged; a body accepted without quantity is stored with
\* quantity 1.
BreaksConstraint(raw) ==
    \/ \E k \in MmFields : Present(raw, k) /\ Get(raw[k]) < 0
    \/ Present(raw, "quantity") /\ Get(raw["quantity"]) < 1
    \/ Present(raw, "element_type") /\ Get(raw["element_type"]) \notin ElementTypes
    \/ Present(raw, "opening") /\ Get(raw["opening"]) \notin Openings
    \/ ~Sent(raw, "project_id")
    \/ ~Sent(raw, "element_type")
C9_ValidationBeforeStore ==
    \A i \in Slots :
        req[i].kind = "create_element" =>
            LET r == req[i]
            IN /\ BreaksConstraint(r.input) =>
                    /\ r.pc = "done" /\ r.status = 422
                    /\ r.log = <<>>
                    /\ db = r.before
               /\ (r.pc = "done" /\ r.status = 200 /\ ~Sent(r.input, "quantity")) =>
                    /\ r.body["quantity"] = 1
                    /\ \E e \in Range(db["element"]) :
                          Some(Str(e["_id"])) = r.inserted_id /\ e["quantity"] = 1
C9_Witness ==
    \E i \in Slots :
        /\ Finished(i, "create_element") /\ req[i].status = 422
        /\ Present(req[i].input, "height_mm") /\ Get(req[i].input["height_mm"]) < 0
        /\ Identifies(Get(req[i].input["project_id"]), "project")
        /\ req[i].log = <<>>

\* C10 as stated: a create operation that ends with an error response (4xx or
\* 5xx) leaves the store exactly as the request found it.
C10_ErrorLeavesStoreUnchanged ==
    \A i \in Slots :
        (req[i].kind \in CreateKinds /\ req[i].pc = "done" /\ req[i].status >= 400)
        => db = req[i].before

\* C10 as the code has it: a create operation that ends with an error response
\* leaves the store as the request found it unless the error is the 500 of a
\* failed re-read after a successful insert; then the store holds, beyond what
\* the request found, exactly the document just inserted.
C10_ErrorLeavesStoreUnchangedUnlessReread ==
    \A i \in Slots :
        (req[i].kind \in CreateKinds /\ req[i].pc = "done" /\ req[i].status >= 400) =>
            LET r == req[i]
                c == CollectionOf(r.kind)
            IN IF r.inserted_id = None THEN db = r.before
               ELSE /\ r.status = 500 /\ r.fault
                    /\ r.log[Len(r.log)] = "find_one(" \o c \o ")"
                    /\ r.log[Len(r.log) - 1] = "insert(" \o c \o ")"
                    /\ \E d \in Range(db[c]) :
                          /\ Some(Str(d["_id"])) = r.inserted_id
                          /\ db = [r.before EXCEPT ![c] = Append(@, d)]
C10_Witness ==
    \E i \in Slots :
        /\ Finished(i, "create_element")
        /\ req[i].status = 500
        /\ req[i].inserted_id # None
        /\ db["element"] # req[i].before["element"]

====
